---- MODULE Spec2Model ----
(***************************************************************************)
(* load-test: replay of a recorded CSV of (time,url) lines as timed HTTP   *)
(* GET requests.  The module models parseCSV (the line transform and the   *)
(* stream it feeds), loadTest (the scheduling loop) and executeRequest     *)
(* (one request against a server), in the two builds of index.js the       *)
(* repository holds:                                                       *)
(*   "interceptor"  src/index.js: undici Agent composed with the dump      *)
(*                  interceptor, headersTimeout/bodyTimeout;               *)
(*   "signal"       src/unnamed/part_004: AbortSignal.timeout and          *)
(*                  await body.dump().                                     *)
(* Time is a discrete clock of milliseconds; a timer that is due fires     *)
(* before the clock moves on.                                              *)
(* The options the CLI passes on to loadTest and parseCSV (accelerator,     *)
(* host, noCache, skipHeader, resetConnections, limit) belong to a later   *)
(* build that the repository does not hold, as do the counters of the      *)
(* completion barrier and of the final report; Spec runs the builds it     *)
(* holds, with the options at their defaults, ReplaySpec, RotationSpec and *)
(* RewriteSpec run them with the options set, and ParseSpec feeds parseCSV *)
(* arbitrary lines.                                                        *)
(***************************************************************************)
EXTENDS Integers, Sequences, FiniteSets, TLC

\* ------------------------------------------------------------------ bounds
MaxLines == 2        \* lines of the CSV file
MaxLineLength == 4   \* characters of a line, where lines are arbitrary
MaxTime == 3         \* the clock stops here
MaxParams == 2       \* parameters of a recorded URL's query

\* ------------------------------------------------------- program values
TimeoutMs == 2       \* the timeoutMs argument of loadTest / executeRequest
HighWaterMark == 16  \* records an objectMode stream buffers ahead of its reader

VARIABLES
  impl,             \* which build of index.js runs
  options,          \* the arguments the CLI passes to loadTest after timeoutMs:
                    \* accelerator, host, noCache, skipHeader,
                    \* resetConnections and limit
  server,           \* the server under test: the status it answers with, and
                    \* whether it ends the body with the headers ("whole"),
                    \* some time after them ("late") or never
  file,             \* the CSV file: a sequence of lines, a line a sequence of characters
  now,              \* Date.now()
  lineNumber,       \* parseCSV: lines the transform has taken
  headerSkipped,    \* parseCSV: the header line has been discarded
  buffer,           \* parseCSV: records pushed and not yet read by the loop
  streamState,      \* parseCSV: "open", "ended" or "errored"
  streamError,      \* parseCSV: the error the stream was destroyed with
  pc,               \* loadTest: "read", "sleep", "resolved", "rejected"
  startTime,        \* loadTest: startTime
  firstRequestTime, \* loadTest: firstRequestTime, Null before the first record
  current,          \* loadTest: the record whose delay is being slept
  wakeAt,           \* loadTest: the instant the pending setTimeout(delay) is due
  noRequests,       \* loadTest: 'No requests found in CSV file' was logged
  requests,         \* the executeRequest calls made so far, in call order
  pool,             \* the connection pool manager: the handles it has made,
                    \* the current one, the requests dispatched on it
  tracker           \* the counters the final report is made from

vars == <<impl, options, server, file, now, lineNumber, headerSkipped, buffer,
          streamState, streamError, pc, startTime, firstRequestTime, current,
          wakeAt, noRequests, requests, pool, tracker>>

Null == -1
NaN == -1
NoRecord == [time |-> Null, url |-> <<>>, line |-> 0]
NoError == <<>>
NoOutcome == [success |-> FALSE, url |-> <<>>, statusCode |-> 0, error |-> NoError]

\* ------------------------------------------------------------ characters
Digits == <<"0", "1", "2", "3", "4", "5", "6", "7", "8", "9">>

IsDigit(c) == \E d \in 1..10 : Digits[d] = c

DigitValue(c) == (CHOOSE d \in 1..10 : Digits[d] = c) - 1

IsSpace(c) == c = " "

\* String.prototype.trim
RECURSIVE TrimStart(_)
TrimStart(s) ==
  IF s # <<>> /\ IsSpace(Head(s)) THEN TrimStart(Tail(s)) ELSE s

RECURSIVE TrimEnd(_)
TrimEnd(s) ==
  IF s # <<>> /\ IsSpace(s[Len(s)]) THEN TrimEnd(SubSeq(s, 1, Len(s) - 1)) ELSE s

Trim(s) == TrimEnd(TrimStart(s))

\* String.prototype.split(','): the fields between the commas, empty ones kept
RECURSIVE Split(_, _)
Split(s, acc) ==
  IF s = <<>> THEN <<acc>>
  ELSE IF Head(s) = "," THEN <<acc>> \o Split(Tail(s), <<>>)
  ELSE Split(Tail(s), Append(acc, Head(s)))

\* parseFloat on a trimmed field: the value of the longest leading run of
\* digits, NaN when the field does not start with a digit
RECURSIVE DigitsPrefix(_, _)
DigitsPrefix(s, acc) ==
  IF s # <<>> /\ IsDigit(Head(s))
    THEN DigitsPrefix(Tail(s), 10 * acc + DigitValue(Head(s)))
    ELSE acc

ParseFloat(s) ==
  IF s # <<>> /\ IsDigit(Head(s)) THEN DigitsPrefix(s, 0) ELSE NaN

\* ------------------------------------------------------------- parseCSV
\* (a changed build: a line of more than two fields passes the column check)
TransformAtLeastTwo(line, n) ==
  LET trimmedLine == Trim(line)
      parts == Split(trimmedLine, <<>>)
  IN IF trimmedLine = <<>> THEN [kind |-> "skip"]
     ELSE IF Len(parts) < 2
       THEN [kind |-> "error", error |-> <<"Invalid CSV format", n, Len(parts)>>]
     ELSE LET time == ParseFloat(Trim(parts[1]))
              url == Trim(parts[2])
          IN IF time = NaN
               THEN [kind |-> "error", error |-> <<"Invalid time value", n>>]
             ELSE IF url = <<>>
               THEN [kind |-> "error", error |-> <<"Invalid URL", n>>]
             ELSE [kind |-> "record", time |-> time, url |-> url]

\* The transform of one line: what callback() is called with.
\*   [kind |-> "skip"]                      callback()
\*   [kind |-> "error", error |-> e]        callback(new Error(...))
\*   [kind |-> "record", time, url]         callback(null, { time, url })
Transform(line, n) ==
  LET trimmedLine == Trim(line)
      parts == Split(trimmedLine, <<>>)
  IN IF trimmedLine = <<>> THEN [kind |-> "skip"]
     ELSE IF Len(parts) # 2
       THEN [kind |-> "error", error |-> <<"Invalid CSV format", n, Len(parts)>>]
     ELSE LET time == ParseFloat(Trim(parts[1]))
              url == Trim(parts[2])
          IN IF time = NaN
               THEN [kind |-> "error", error |-> <<"Invalid time value", n>>]
             ELSE IF url = <<>>
               THEN [kind |-> "error", error |-> <<"Invalid URL", n>>]
             ELSE [kind |-> "record", time |-> time, url |-> url]

\* The lines a file is made of here: two records at time 0 and 1, a record
\* whose URL is not an absolute URL, a blank line and a line with a bad time.
Lines ==
  { <<"0", ",", "u">>, <<"1", ",", "u">>, <<"0", ",", "b">>, <<>>, <<"x", ",", "u">> }

RECURSIVE SeqsOf(_, _)
SeqsOf(S, n) ==
  IF n = 0 THEN {<<>>}
  ELSE LET shorter == SeqsOf(S, n - 1)
       IN shorter \cup {Append(s, x) : s \in {t \in shorter : Len(t) = n - 1}, x \in S}

Files == SeqsOf(Lines, MaxLines)

\* ------------------------------------------------------ URL transformer
\* A URL is the sequence of its words and marks: the scheme, the words of
\* the authority (host, ":", port), the path ("/" and segments) and, after
\* "?", the parameters name "=" value with "&" between them.  "u" is a
\* scheme with nothing after it.
Schemes == {"u", "http://", "https://"}

\* No --host was given.
NoHost == <<>>

\* The first position from k on that holds one of the marks, Len(s) + 1 when
\* none does.
RECURSIVE IndexOf(_, _, _)
IndexOf(s, marks, k) ==
  IF k > Len(s) \/ s[k] \in marks THEN k ELSE IndexOf(s, marks, k + 1)

\* The pieces of s between the occurrences of sep.
RECURSIVE SplitAt(_, _, _)
SplitAt(s, sep, acc) ==
  IF s = <<>> THEN <<acc>>
  ELSE IF Head(s) = sep THEN <<acc>> \o SplitAt(Tail(s), sep, <<>>)
  ELSE SplitAt(Tail(s), sep, Append(acc, Head(s)))

ParseParam(pair) ==
  LET eq == IndexOf(pair, {"="}, 1)
  IN [name |-> SubSeq(pair, 1, eq - 1), value |-> SubSeq(pair, eq + 1, Len(pair))]

ParseParams(query) ==
  IF query = <<>> THEN <<>>
  ELSE LET pairs == SplitAt(query, "&", <<>>)
       IN [k \in 1..Len(pairs) |-> ParseParam(pairs[k])]

\* The URL taken apart: scheme, authority, path and query parameters.
ParseURL(url) ==
  LET authorityEnd == IndexOf(url, {"/", "?"}, 2)
      queryStart == IndexOf(url, {"?"}, 2)
  IN [scheme |-> Head(url),
      authority |-> SubSeq(url, 2, authorityEnd - 1),
      path |-> SubSeq(url, authorityEnd, queryStart - 1),
      params |-> ParseParams(SubSeq(url, queryStart + 1, Len(url)))]

RECURSIVE FormatParams(_)
FormatParams(params) ==
  IF params = <<>> THEN <<>>
  ELSE Head(params).name \o <<"=">> \o Head(params).value
         \o (IF Tail(params) = <<>> THEN <<>> ELSE <<"&">> \o FormatParams(Tail(params)))

\* The URL put together again; a query without parameters is left out.
FormatURL(u) ==
  <<u.scheme>> \o u.authority \o u.path
    \o (IF u.params = <<>> THEN <<>> ELSE <<"?">> \o FormatParams(u.params))

\* (a changed build: only the host name is replaced, the port is kept)
RewriteHostname(u, host) ==
  [u EXCEPT !.authority = host \o SubSeq(@, 2, Len(@))]

\* The host rewrite: the authority becomes the override, whole.
RewriteHost(u, host) == [u EXCEPT !.authority = host]

\* Sets the parameter: the first one of that name takes the value and keeps
\* its place, further ones of that name are dropped; when there is none the
\* parameter is appended.
RECURSIVE SetParam(_, _, _, _)
SetParam(params, name, value, seen) ==
  IF params = <<>>
    THEN IF seen THEN <<>> ELSE <<[name |-> name, value |-> value]>>
  ELSE IF Head(params).name = name
    THEN (IF seen THEN <<>> ELSE <<[name |-> name, value |-> value]>>)
           \o SetParam(Tail(params), name, value, TRUE)
  ELSE <<Head(params)>> \o SetParam(Tail(params), name, value, seen)

\* (a changed build: cache=false is appended, whatever the query holds)
AppendCacheBust(u) ==
  [u EXCEPT !.params = Append(@, [name |-> <<"cache">>, value |-> <<"false">>])]

\* The cache-bust: cache=false is set in the query.
AddCacheBust(u) ==
  [u EXCEPT !.params = SetParam(@, <<"cache">>, <<"false">>, FALSE)]

HostRewritten(url, host) == FormatURL(RewriteHost(ParseURL(url), host))

CacheBusted(url) == FormatURL(AddCacheBust(ParseURL(url)))

\* transform(url, hostOverride, addCacheBust): the URL a record's request is
\* sent to.
TransformURL(url) ==
  LET rewritten == IF options.host # NoHost THEN HostRewritten(url, options.host)
                   ELSE url
  IN IF options.noCache THEN CacheBusted(rewritten) ELSE rewritten

\* ------------------------------------------------------- executeRequest
\* request() takes an absolute URL, one that starts with a scheme; anything
\* else makes request() throw its invalid-url error.
IsAbsoluteURL(url) == url # <<>> /\ Head(url) \in Schemes

\* The status codes a server answers with: a 2xx, a redirect and a 4xx.
StatusCodes == {200, 300, 404}

\* catch (err) { ...; return { success: false, url, error: err } }
Failure(url, err) ==
  [success |-> FALSE, url |-> url, statusCode |-> 0, error |-> err]

\* (a changed build: 3xx answers pass as successes)
IsErrorStatusFrom400(statusCode) == statusCode < 200 \/ statusCode >= 400

\* if (statusCode < 200 || statusCode >= 300)
IsErrorStatus(statusCode) == statusCode < 200 \/ statusCode >= 300

\* What executeRequest returns once request() (and, in the signal build,
\* body.dump()) has settled with a status code.
Classify(url, statusCode) ==
  IF IsErrorStatus(statusCode)
    THEN Failure(url, <<"HTTP_", statusCode>>)
    ELSE [success |-> TRUE, url |-> url, statusCode |-> statusCode, error |-> NoError]

\* The error the request's deadline rejects with.
TimeoutError ==
  IF impl = "interceptor" THEN <<"UND_ERR_HEADERS_TIMEOUT">> ELSE <<"TimeoutError">>

\* A request whose outcome is not yet known: executeRequest is at an await.
InFlight(r) == r.phase \in {"headers", "body"}

inFlightCount == Cardinality({i \in 1..Len(requests) : InFlight(requests[i])})

\* executeRequest returns: its promise is fulfilled with the outcome.
Finish(r, outcome) == [r EXCEPT !.phase = "done", !.outcome = outcome]

\* (a changed build: the catch block throws the error on, the promise rejects)
CatchRethrows(r, err) == [r EXCEPT !.phase = "rejected"]

\* The catch block: whatever was thrown becomes a failure outcome.
Catch(r, err) == Finish(r, Failure(r.url, err))

\* (a changed build: both builds await the end of the body)
AwaitsBodyAlways == TRUE

\* Which build awaits the end of the body before it classifies the status.
AwaitsBody == impl = "signal"

\* ---------------------------------------------- connection pool manager
\* The module's agent: one handle, open, nothing dispatched on it yet.
InitPool == [current |-> 1, sinceRotation |-> 0, handles |-> <<"open">>]

\* The requests in flight that were dispatched on handle h.
Users(reqs, h) == {i \in 1..Len(reqs) : InFlight(reqs[i]) /\ reqs[i].handle = h}

\* (a changed build: the handle is replaced once the threshold is passed)
RotationDueAfterThreshold(p) ==
  options.resetConnections > 0 /\ p.sinceRotation > options.resetConnections

\* The requests dispatched on the current handle have reached the threshold.
RotationDue(p) ==
  options.resetConnections > 0 /\ p.sinceRotation >= options.resetConnections

\* (a changed build: the old handle is destroyed at once)
DestroyAtOnce(handles, h) == [handles EXCEPT ![h] = "closed"]

\* drainAndClose(handle): the graceful close of a handle is begun, and is
\* not awaited.
DrainAndClose(handles, h) == [handles EXCEPT ![h] = "closing"]

\* A fresh handle is swapped in and the old one is left to close.
Rotate(p) ==
  [current |-> p.current + 1, sinceRotation |-> 0,
   handles |-> Append(DrainAndClose(p.handles, p.current), "open")]

\* rotateIfDue(), after a request was dispatched on the current handle.
RotateIfDue(p) ==
  LET counted == [p EXCEPT !.sinceRotation = @ + 1]
  IN IF RotationDue(counted) THEN Rotate(counted) ELSE counted

\* A handle that is closing is closed once no request in flight uses it.
Drained(p, reqs) ==
  [p EXCEPT !.handles =
     [h \in DOMAIN @ |->
        IF @[h] = "closing" /\ Users(reqs, h) = {} THEN "closed" ELSE @[h]]]

\* --------------------------------------------------- concurrency tracker
\* Nothing dispatched, nothing finished; samples is the histogram's count.
InitTracker == [inFlightCount |-> 0, errorCount |-> 0, samples |-> 0]

\* onDispatch()
OnDispatch(t) == [t EXCEPT !.inFlightCount = @ + 1]

\* (a changed build: only a successful request is counted as finished)
OnFinishOfSuccess(t, outcome) ==
  IF outcome.success
    THEN [t EXCEPT !.inFlightCount = @ - 1, !.samples = @ + 1]
    ELSE [t EXCEPT !.errorCount = @ + 1, !.samples = @ + 1]

\* (a changed build: the latency of a failed request is not recorded)
OnFinishWithoutSample(t, outcome) ==
  [t EXCEPT !.inFlightCount = @ - 1,
            !.errorCount = IF outcome.success THEN @ ELSE @ + 1,
            !.samples = IF outcome.success THEN @ + 1 ELSE @]

\* onFinish(outcome): one request less in flight, one error more when it
\* failed, its latency recorded in the histogram.
OnFinish(t, outcome) ==
  [t EXCEPT !.inFlightCount = @ - 1,
            !.errorCount = IF outcome.success THEN @ ELSE @ + 1,
            !.samples = @ + 1]

\* The tracker after a step that left request r as it is now: onFinish runs
\* when executeRequest has returned.
Settled(t, r) == IF r.phase = "done" THEN OnFinish(t, r.outcome) ELSE t

\* The final report: total, successful and failed requests.
Report ==
  [total |-> tracker.samples,
   successful |-> tracker.samples - tracker.errorCount,
   errors |-> tracker.errorCount]

\* (a changed build: request() is called outside the try block)
NewRequestOutsideTry(rec) ==
  LET r == [line |-> rec.line, url |-> rec.url, issuedAt |-> now,
            phase |-> "headers", statusCode |-> 0, bodyEnded |-> FALSE,
            outcome |-> NoOutcome, handle |-> pool.current]
  IN IF IsAbsoluteURL(rec.url) THEN r
     ELSE [r EXCEPT !.phase = "rejected"]

\* executeRequest(url, timeoutMs), up to its first await, for the URL the
\* record's is transformed to. line is the line of the file the record came
\* from (kept for the record's identity), handle the pool handle that was
\* current at the call.
NewRequest(rec) ==
  LET r == [line |-> rec.line, url |-> rec.url, issuedAt |-> now,
            phase |-> "headers", statusCode |-> 0, bodyEnded |-> FALSE,
            outcome |-> NoOutcome, handle |-> pool.current]
  IN IF IsAbsoluteURL(rec.url) THEN [r EXCEPT !.url = TransformURL(rec.url)]
     ELSE Catch(r, <<"ERR_INVALID_URL">>)

\* (a changed build: the call is made again right after the first)
IssueTwice(reqs, rec) == Append(Append(reqs, NewRequest(rec)), NewRequest(rec))

\* The loop's call, not awaited: executeRequest(req.url, timeoutMs)
Issue(reqs, rec) == Append(reqs, NewRequest(rec))

\* What the call does to the pool manager and to the tracker: the request
\* went out on the current handle, which is replaced when it is due; it is
\* counted as dispatched, and as finished when it failed at once.
Dispatch ==
  /\ pool' = Drained(RotateIfDue(pool), requests')
  /\ tracker' = Settled(OnDispatch(tracker), requests'[Len(requests')])

\* The connection fails before any response: request() rejects.
ConnectionError(i) ==
  /\ requests[i].phase = "headers"
  /\ requests' = [requests EXCEPT ![i] = Catch(@, <<"ECONNREFUSED">>)]
  /\ pool' = Drained(pool, requests')
  /\ tracker' = Settled(tracker, requests'[i])
  /\ UNCHANGED <<impl, options, server, file,
                 now, lineNumber, headerSkipped, buffer, streamState, streamError,
                 pc, startTime, firstRequestTime, current, wakeAt, noRequests>>

\* The response's headers arrive: request() resolves with the server's status
\* code.  With the dump interceptor executeRequest goes on to classify the
\* status at once; with body.dump() it first awaits the end of the body,
\* which is there already when the server sent it whole.
ResponseHeaders(i) ==
  /\ requests[i].phase = "headers"
  /\ requests' = [requests EXCEPT ![i] =
       LET r == [@ EXCEPT !.statusCode = server.status,
                          !.bodyEnded = (server.body = "whole")]
       IN IF AwaitsBody /\ ~r.bodyEnded
            THEN [r EXCEPT !.phase = "body"]
            ELSE Finish(r, Classify(r.url, r.statusCode))]
  /\ pool' = Drained(pool, requests')
  /\ tracker' = Settled(tracker, requests'[i])
  /\ UNCHANGED <<impl, options, server, file,
                 now, lineNumber, headerSkipped, buffer, streamState, streamError,
                 pc, startTime, firstRequestTime, current, wakeAt, noRequests>>

\* The server ends the body while executeRequest awaits it: body.dump()
\* resolves (signal build).  bodyEnded says whether the end of the body had
\* been seen when the outcome was made.
ResponseEnd(i) ==
  /\ requests[i].phase = "body"
  /\ server.body = "late"
  /\ requests' = [requests EXCEPT ![i] =
       LET r == [@ EXCEPT !.bodyEnded = TRUE]
       IN Finish(r, Classify(r.url, r.statusCode))]
  /\ pool' = Drained(pool, requests')
  /\ tracker' = Settled(tracker, requests'[i])
  /\ UNCHANGED <<impl, options, server, file,
                 now, lineNumber, headerSkipped, buffer, streamState, streamError,
                 pc, startTime, firstRequestTime, current, wakeAt, noRequests>>

\* The instant the request's timer is due.  headersTimeout runs until the
\* headers are in; AbortSignal.timeout runs for the whole request.
Deadline(r) == r.issuedAt + TimeoutMs

TimerArmed(r) == InFlight(r)

\* (a changed build: one signal for the whole run, all requests abort)
AbortAll(reqs, i) ==
  [j \in 1..Len(reqs) |->
     IF InFlight(reqs[j]) THEN Catch(reqs[j], TimeoutError) ELSE reqs[j]]

\* The request's own timeout: the call it awaits rejects, the catch block
\* returns the failure; no other request has that signal.
Abort(reqs, i) == [reqs EXCEPT ![i] = Catch(@, TimeoutError)]

\* The timer fires while executeRequest is at an await: the awaited call
\* rejects and the catch block returns the failure.
RequestTimeout(i) ==
  /\ TimerArmed(requests[i])
  /\ now >= Deadline(requests[i])
  /\ requests' = Abort(requests, i)
  /\ pool' = Drained(pool, requests')
  /\ tracker' = Settled(tracker, requests'[i])
  /\ UNCHANGED <<impl, options, server, file,
                 now, lineNumber, headerSkipped, buffer, streamState, streamError,
                 pc, startTime, firstRequestTime, current, wakeAt, noRequests>>

\* ------------------------------------------------------------- parseCSV
\* (a changed build: with skipHeader the first line is dropped, blank or not)
SkipsFirstLine(line) == options.skipHeader /\ lineNumber = 0

\* parseCSV(csvPath, skipHeader): the line is dropped as the header when it
\* is the first line that is not blank.
SkipsAsHeader(line) == options.skipHeader /\ ~headerSkipped /\ Trim(line) # <<>>

\* (a changed build: the transform reports the error and takes the next line)
DestroyLeavesOpen(err) == [state |-> "open", error |-> err]

\* callback(new Error(...)): the pipeline fails and the stream is destroyed
\* with the error, parseTransform.destroy(err).
Destroy(err) == [state |-> "errored", error |-> err]

\* (a changed build: lineNumber++ comes after the blank lines are skipped)
NumberOfLineAmongNonBlank(taken) ==
  Cardinality({n \in 1..taken : Trim(file[n]) # <<>>})

\* lineNumber++ comes first in the transform, before the blank lines are
\* skipped: the number of a line is the count of the lines taken so far.
NumberOfLine(taken) == taken

\* transform(line, encoding, callback) on the next line of the file
TransformLine ==
  /\ streamState = "open"
  /\ lineNumber < Len(file)
  /\ Len(buffer) < HighWaterMark
  /\ lineNumber' = lineNumber + 1
  /\ headerSkipped' = (headerSkipped \/ SkipsAsHeader(file[lineNumber + 1]))
  /\ LET t == IF SkipsAsHeader(file[lineNumber + 1])
                THEN [kind |-> "skip"]
                ELSE Transform(file[lineNumber + 1], NumberOfLine(lineNumber + 1))
     IN CASE t.kind = "skip" ->
               UNCHANGED <<buffer, streamState, streamError>>
          [] t.kind = "error" ->
               /\ streamState' = Destroy(t.error).state
               /\ streamError' = Destroy(t.error).error
               /\ UNCHANGED buffer
          [] t.kind = "record" ->
               /\ buffer' = Append(buffer,
                    [time |-> t.time, url |-> t.url, line |-> lineNumber + 1])
               /\ UNCHANGED <<streamState, streamError>>
  /\ UNCHANGED <<impl, options, server, file, now, pc, startTime, firstRequestTime, current,
                 wakeAt, noRequests, requests, pool, tracker>>

\* readline has no more lines: the pipeline ends the transform stream
EndOfInput ==
  /\ streamState = "open"
  /\ lineNumber = Len(file)
  /\ streamState' = "ended"
  /\ UNCHANGED <<impl, options, server, file,
                 now, lineNumber, headerSkipped, buffer, streamError, pc, startTime,
                 firstRequestTime, current, wakeAt, noRequests, requests, pool,
                 tracker>>

\* ------------------------------------------------------------- loadTest
\* (a changed build: the relative time is multiplied by the factor)
AcceleratedByProduct(relativeTime) == relativeTime * options.accelerator

\* The relative time of a record with the accelerator applied: the recorded
\* offset divided by the factor, rounded down. The factor is a float: the
\* fraction options.accelerator / options.acceleratorDenominator.
Accelerated(relativeTime) ==
  (relativeTime * options.acceleratorDenominator) \div options.accelerator

\* (a changed build: the loop sleeps the record's whole relative time)
TargetTimeAfterNow(rec, first) == now + Accelerated(rec.time - first)

\* (a changed build: the delay is taken from the time the loop got the record)
TargetTimeFromNow(rec, first) == now

\* (a changed build: the delays are counted from the first dispatch)
TargetTimeFromFirstDispatch(rec, first) ==
  (IF requests = <<>> THEN now ELSE requests[1].issuedAt)
    + Accelerated(rec.time - first)

\* (a changed build: the relative time is taken without its sign)
TargetTimeOfMagnitude(rec, first) ==
  startTime + Accelerated(IF rec.time < first THEN first - rec.time
                          ELSE rec.time - first)

\* const targetTime = startTime + relativeTime
TargetTime(rec, first) == startTime + Accelerated(rec.time - first)

\* (a changed build: the loop stops one request late)
LimitExceeded == options.limit > 0 /\ Len(requests) > options.limit

\* The loop stops taking records once limit requests have been issued.
LimitReached == options.limit > 0 /\ Len(requests) >= options.limit

\* (a changed build: the loop awaits executeRequest before the next record)
IteratorYieldsWhenIdle ==
  streamState # "errored" /\ buffer # <<>> /\ inFlightCount = 0

\* for await (const req of parseCSV(csvPath)): the iterator hands the loop
\* its next record when the stream has one buffered and was not destroyed.
IteratorYields == streamState # "errored" /\ buffer # <<>>

\* One turn of the for await loop, up to its await or to the end of its body.
LoopBody ==
  /\ pc = "read"
  /\ ~LimitReached
  /\ IteratorYields
  /\ LET req == Head(buffer)
         first == IF firstRequestTime = Null THEN req.time ELSE firstRequestTime
         delay == TargetTime(req, first) - now
     IN /\ firstRequestTime' = first
        /\ buffer' = Tail(buffer)
        /\ IF delay > 0
             THEN /\ pc' = "sleep"
                  /\ current' = req
                  /\ wakeAt' = now + delay
                  /\ UNCHANGED <<requests, pool, tracker>>
             ELSE /\ requests' = Issue(requests, req)
                  /\ Dispatch
                  /\ UNCHANGED <<pc, current, wakeAt>>
  /\ UNCHANGED <<impl, options, server, file,
                 now, lineNumber, headerSkipped, streamState, streamError,
                 startTime, noRequests>>

\* await setTimeout(delay) resolves; the loop body runs to its end.
TimerFires ==
  /\ pc = "sleep"
  /\ now >= wakeAt
  /\ requests' = Issue(requests, current)
  /\ Dispatch
  /\ pc' = "read"
  /\ current' = NoRecord
  /\ wakeAt' = Null
  /\ UNCHANGED <<impl, options, server, file,
                 now, lineNumber, headerSkipped, buffer, streamState, streamError,
                 startTime, firstRequestTime, noRequests>>

\* The stream has ended and is read dry: the iterator is done.
streamExhausted == streamState = "ended" /\ buffer = <<>>

\* (a changed build: the return is left to the next request that finishes)
LoopMayEndOnFinish == streamExhausted /\ inFlightCount > 0

\* What loadTest waits for after the loop before it returns: nothing.
LoopMayEnd == streamExhausted

\* (a changed build: if (!firstRequestTime), true of a first record of time 0)
NoRequestsFoundWhenFalsy == firstRequestTime = Null \/ firstRequestTime = 0

\* if (firstRequestTime === null): 'No requests found in CSV file'
NoRequestsFound == firstRequestTime = Null

\* The loop is left and loadTest returns: its promise resolves.
LoopEnd ==
  /\ pc = "read"
  /\ LoopMayEnd \/ LimitReached
  /\ pc' = "resolved"
  /\ noRequests' = NoRequestsFound
  /\ UNCHANGED <<impl, options, server, file,
                 now, lineNumber, headerSkipped, buffer, streamState, streamError,
                 startTime, firstRequestTime, current, wakeAt, requests, pool,
                 tracker>>

\* (a changed build: the loop awaits executeRequest, which throws on failure)
LoopThrowsOnFailure ==
  \/ streamState = "errored"
  \/ \E i \in 1..Len(requests) :
       requests[i].phase = "done" /\ ~requests[i].outcome.success

\* What makes the for await loop throw: the stream was destroyed with an
\* error.  executeRequest is not awaited, and returns failures as values.
LoopThrows == streamState = "errored"

\* The stream was destroyed with a parse error: the iterator throws, buffered
\* records are dropped, loadTest rejects.
LoopThrow ==
  /\ pc = "read"
  /\ ~LimitReached
  /\ LoopThrows
  /\ pc' = "rejected"
  /\ UNCHANGED <<impl, options, server, file,
                 now, lineNumber, headerSkipped, buffer, streamState, streamError,
                 startTime, firstRequestTime, current, wakeAt, noRequests, requests,
                 pool, tracker>>

\* ----------------------------------------------------------------- time
TimerDue ==
  \/ pc = "sleep" /\ now >= wakeAt
  \/ \E i \in 1..Len(requests) :
       TimerArmed(requests[i]) /\ now >= Deadline(requests[i])

Tick ==
  /\ now < MaxTime
  /\ ~TimerDue
  /\ now' = now + 1
  /\ UNCHANGED <<impl, options, server, file,
                 lineNumber, headerSkipped, buffer, streamState, streamError, pc,
                 startTime, firstRequestTime, current, wakeAt, noRequests, requests,
                 pool, tracker>>

\* ------------------------------------------------------- specification
\* loadTest is entered: nothing has been read, nothing is scheduled.
InitRun ==
  /\ impl \in {"interceptor", "signal"}
  /\ now = 0
  /\ lineNumber = 0
  /\ headerSkipped = FALSE
  /\ buffer = <<>>
  /\ streamState = "open"
  /\ streamError = NoError
  /\ pc = "read"
  /\ startTime = 0
  /\ firstRequestTime = Null
  /\ current = NoRecord
  /\ wakeAt = Null
  /\ noRequests = FALSE
  /\ requests = <<>>
  /\ pool = InitPool
  /\ tracker = InitTracker

\* loadTest(csvPath, timeoutMs) as index.js has it: no acceleration, no
\* host rewrite, no cache-bust, no header line, no rotation, no limit.
DefaultOptions ==
  [accelerator |-> 1, acceleratorDenominator |-> 1, host |-> NoHost, noCache |-> FALSE, skipHeader |-> FALSE,
   resetConnections |-> 0, limit |-> 0]

Init ==
  /\ InitRun
  /\ options = DefaultOptions
  /\ server \in [status : StatusCodes, body : {"whole", "late", "never"}]
  /\ file \in Files

Next ==
  \/ TransformLine
  \/ EndOfInput
  \/ LoopBody
  \/ TimerFires
  \/ LoopEnd
  \/ LoopThrow
  \/ \E i \in 1..Len(requests) : ConnectionError(i)
  \/ \E i \in 1..Len(requests) : ResponseHeaders(i)
  \/ \E i \in 1..Len(requests) : ResponseEnd(i)
  \/ \E i \in 1..Len(requests) : RequestTimeout(i)
  \/ Tick

Spec == Init /\ [][Next]_vars

\* The runs whose ends are followed: the file holds the first lines of a
\* recorded schedule, or a malformed line, and the server answers 200 and
\* ends the body some time after the headers.
LiveSchedule ==
  [n \in 1..MaxLines |-> IF n = 1 THEN <<"0", ",", "u">> ELSE <<"1", ",", "u">>]

LiveFiles ==
  {SubSeq(LiveSchedule, 1, n) : n \in 0..MaxLines} \cup {<<<<"x", ",", "u">>>>}

InitLive ==
  /\ Init
  /\ file \in LiveFiles
  /\ server = [status |-> 200, body |-> "late"]

\* A step of the program itself: a callback of the stream, a turn of the
\* loop, a timer that is due.
Program ==
  \/ TransformLine \/ EndOfInput \/ LoopBody \/ TimerFires \/ LoopEnd \/ LoopThrow
  \/ \E i \in 1..Len(requests) : RequestTimeout(i)

\* The event loop runs a callback that is ready, and the clock moves on;
\* the server is under no obligation to answer.
LiveSpec == InitLive /\ [][Next]_vars /\ WF_vars(Program) /\ WF_vars(Tick)

\* The runs with the options of the CLI: a recorded schedule of up to three
\* records in the order of their times, as the tests write them, behind
\* nothing, a header line, or a blank line and a header line; the build is
\* the later one, the server answers 200 and ends the body some time after
\* the headers.
ScheduleLength == 3

HeaderLine == <<"t", ",", "u">>

ReplayLines == { <<"0", ",", "u">>, <<"1", ",", "u">>, <<"2", ",", "u">> }

Schedules ==
  { s \in SeqsOf(ReplayLines, ScheduleLength) :
      \A n \in 1..(Len(s) - 1) : Transform(s[n], n).time <= Transform(s[n + 1], n + 1).time }

ReplayFiles ==
  { head \o schedule :
      head \in { <<>>, <<HeaderLine>>, << <<>>, HeaderLine >> },
      schedule \in Schedules }

ReplayOptions ==
  [accelerator : {1, 2}, acceleratorDenominator : {1}, host : {NoHost}, noCache : {FALSE}, skipHeader : BOOLEAN,
   resetConnections : {0}, limit : {0, 1, 2}]

InitReplay ==
  /\ InitRun
  /\ impl = "signal"
  /\ options \in ReplayOptions
  /\ server = [status |-> 200, body |-> "late"]
  /\ file \in ReplayFiles

ReplaySpec == InitReplay /\ [][Next]_vars

\* The runs that parse arbitrary lines: the file is one line of up to
\* MaxLineLength characters, alone, before the record 1,u or after the
\* record 0,u.
Characters == {"0", ",", "u", " "}

ParseLines == SeqsOf(Characters, MaxLineLength)

ParseFiles ==
  UNION { { <<line>>, <<line, <<"1", ",", "u">> >>, << <<"0", ",", "u">>, line>> } :
            line \in ParseLines }

InitParse ==
  /\ InitRun
  /\ impl = "signal"
  /\ options = DefaultOptions
  /\ server = [status |-> 200, body |-> "late"]
  /\ file \in ParseFiles

ParseSpec == InitParse /\ [][Next]_vars

\* -------------------------------------------------------------- the CLI
\* A float as the fraction num / den; NaN has no denominator.
NotANumber == [num |-> 0, den |-> 0]

IsNaN(x) == x.den = 0

RECURSIVE DigitsLength(_)
DigitsLength(s) ==
  IF s # <<>> /\ IsDigit(Head(s)) THEN 1 + DigitsLength(Tail(s)) ELSE 0

RECURSIVE PowerOfTen(_)
PowerOfTen(n) == IF n = 0 THEN 1 ELSE 10 * PowerOfTen(n - 1)

RECURSIVE GCD(_, _)
GCD(a, b) == IF b = 0 THEN a ELSE GCD(b, a % b)

\* parseFloat on an option value: leading blanks skipped, a sign, the digits
\* before and after a decimal point; what follows them is ignored, and a
\* value with no digit is NaN. (The values drawn hold no exponent.)
ParseDecimal(arg) ==
  LET s == TrimStart(arg)
      signed == s # <<>> /\ Head(s) \in {"-", "+"}
      sign == IF s # <<>> /\ Head(s) = "-" THEN -1 ELSE 1
      body == IF signed THEN Tail(s) ELSE s
      whole == DigitsLength(body)
      rest == SubSeq(body, whole + 1, Len(body))
      fraction == IF rest # <<>> /\ Head(rest) = "." THEN Tail(rest) ELSE <<>>
      places == DigitsLength(fraction)
      num == DigitsPrefix(body, 0) * PowerOfTen(places) + DigitsPrefix(fraction, 0)
      den == PowerOfTen(places)
      g == GCD(num, den)
  IN IF whole + places = 0 THEN NotANumber
     ELSE [num |-> sign * (num \div g), den |-> den \div g]

\* (a changed build: only a negative factor is turned away)
AcceleratorRejectedIfNegative(accelerator) ==
  IsNaN(accelerator) \/ accelerator.num < 0

\* cli.js: the two checks of the accelerator that end in process.exit(1)
AcceleratorRejected(accelerator) ==
  IsNaN(accelerator) \/ accelerator.num <= 0

\* The values of --accelerator on the command line.
MaxArgLength == 3

ArgCharacters == {"0", "5", ".", "-", "x"}

Args == SeqsOf(ArgCharacters, MaxArgLength)

\* The options of the loadTest calls the CLI makes: the accelerator is the
\* parsed value of an argument that passed the checks.
CliOptions ==
  { [DefaultOptions EXCEPT !.accelerator = ParseDecimal(arg).num,
                           !.acceleratorDenominator = ParseDecimal(arg).den] :
      arg \in { a \in Args : ~AcceleratorRejected(ParseDecimal(a)) } }

InitCli ==
  /\ InitRun
  /\ impl = "signal"
  /\ options \in CliOptions
  /\ server = [status |-> 200, body |-> "late"]
  /\ file \in LiveFiles

CliSpec == InitCli /\ [][Next]_vars

\* The runs with records out of order: the file holds up to three records
\* with the times 0, 1 and 2 in any order, or a malformed line.
DisorderFiles ==
  SeqsOf(ReplayLines, ScheduleLength) \cup {<<<<"x", ",", "u">>>>}

InitDisorder ==
  /\ InitRun
  /\ impl = "signal"
  /\ options = DefaultOptions
  /\ server = [status |-> 200, body |-> "late"]
  /\ file \in DisorderFiles

DisorderSpec == InitDisorder /\ [][Next]_vars

\* The runs with connection rotation: the file holds the first records of a
\* schedule of five, four at once and one a millisecond later, or a
\* malformed line, and the handle is replaced after every second request;
\* or it holds up to three of them and the handle is replaced after every
\* request, or never.
RotationLength == 5

RotationSchedule ==
  [n \in 1..RotationLength |->
     IF n < RotationLength THEN <<"0", ",", "u">> ELSE <<"1", ",", "u">>]

RotationFiles ==
  {SubSeq(RotationSchedule, 1, n) : n \in 0..RotationLength}
    \cup {<<<<"x", ",", "u">>>>}

RotationOptions ==
  [accelerator : {1}, acceleratorDenominator : {1}, host : {NoHost},
   noCache : {FALSE}, skipHeader : {FALSE},
   resetConnections : {0, 1, 2}, limit : {0}]

InitRotation ==
  /\ InitRun
  /\ impl = "signal"
  /\ options \in RotationOptions
  /\ server = [status |-> 200, body |-> "late"]
  /\ file \in RotationFiles
  /\ options.resetConnections = 2 \/ Len(file) <= ScheduleLength

RotationSpec == InitRotation /\ [][Next]_vars

\* The runs with the URL transformer: the file holds one record whose URL
\* has an http or https scheme, a host with or without a port, a path or
\* none and up to MaxParams parameters, cache among them or not; one such
\* record is also followed by a later record and by a malformed line.  The
\* host is overridden, with or without a port, or left, and cache=false is
\* set or not.
RecordedAuthorities == { <<"example.com">>, <<"example.com", ":", "8080">> }

RecordedPaths == { <<>>, <<"/", "api">> }

Params ==
  { <<"foo", "=", "bar">>, <<"cache", "=", "true">>, <<"cache", "=", "false">> }

RECURSIVE Query(_)
Query(params) ==
  IF params = <<>> THEN <<>>
  ELSE (IF Len(params) = 1 THEN <<"?">> ELSE Query(SubSeq(params, 1, Len(params) - 1)) \o <<"&">>)
         \o params[Len(params)]

RecordedURLs ==
  { <<scheme>> \o authority \o path \o Query(params) :
      scheme \in {"http://", "https://"}, authority \in RecordedAuthorities,
      path \in RecordedPaths, params \in SeqsOf(Params, MaxParams) }

RecordOf(url) == <<"0", ",">> \o url

RewriteFiles ==
  { <<RecordOf(url)>> : url \in RecordedURLs }
    \cup { <<RecordOf(<<"http://", "example.com", "/", "api">>), second>> :
             second \in { <<"1", ",", "u">>, <<"x", ",", "u">> } }

HostOverrides == { <<"localhost">>, <<"localhost", ":", "3000">> }

RewriteOptions ==
  [accelerator : {1}, acceleratorDenominator : {1},
   host : {NoHost} \cup HostOverrides, noCache : BOOLEAN,
   skipHeader : {FALSE}, resetConnections : {0}, limit : {0}]

InitRewrite ==
  /\ InitRun
  /\ impl = "signal"
  /\ options \in RewriteOptions
  /\ server = [status |-> 200, body |-> "late"]
  /\ file \in RewriteFiles

RewriteSpec == InitRewrite /\ [][Next]_vars

\* ---------------------------------------------------------------- claims
\* What the transform makes of each line a file may hold, worked out once;
\* only an error depends on the number of the line.
KnownLines ==
  Lines \cup ReplayLines \cup {HeaderLine} \cup ParseLines
    \cup {RecordOf(url) : url \in RecordedURLs}

TransformOf == [line \in KnownLines |-> Transform(line, 0)]

\* What the transform makes of each line of the file.
Parsed ==
  [n \in 1..Len(file) |->
     IF TransformOf[file[n]].kind = "error"
       THEN Transform(file[n], n)
       ELSE TransformOf[file[n]]]

\* A file every line of which is blank or a record.
WellFormedIn(parsed) == \A n \in DOMAIN parsed : parsed[n].kind # "error"

WellFormed == WellFormedIn(Parsed)

\* The numbers of the lines that hold a record, in file order.
RECURSIVE RecordLinesFrom(_, _)
RecordLinesFrom(parsed, n) ==
  IF n > Len(parsed) THEN <<>>
  ELSE IF parsed[n].kind = "record"
    THEN <<n>> \o RecordLinesFrom(parsed, n + 1)
    ELSE RecordLinesFrom(parsed, n + 1)

Done(r) == r.phase = "done"

\* C1: for a well-formed file with n records, the executeRequest calls made
\* so far are, in order, the calls for the first records of the file, one
\* call per record and none repeated, whatever the outcomes of the calls;
\* once loadTest has resolved there are exactly n of them.
C1_OneDispatchPerRecord ==
  LET parsed == Parsed
      recordLines == RecordLinesFrom(parsed, 1)
  IN WellFormedIn(parsed) =>
       /\ Len(requests) <= Len(recordLines)
       /\ \A i \in 1..Len(requests) :
            /\ requests[i].line = recordLines[i]
            /\ requests[i].url = parsed[recordLines[i]].url
       /\ pc = "resolved" => Len(requests) = Len(recordLines)

C1_Witness ==
  /\ WellFormed
  /\ pc = "resolved"
  /\ Len(requests) = 2
  /\ Done(requests[1]) /\ ~requests[1].outcome.success
  /\ Done(requests[2]) /\ requests[2].outcome.success

\* C2: whenever the promise loadTest returned has resolved for a file with
\* records, no request it dispatched is still in flight.
C2_ResolvedOnlyWhenAllFinished ==
  (pc = "resolved" /\ requests # <<>>) => inFlightCount = 0

\* C3: the run's terminal wait resolves once, and the step that resolves it
\* ends in a state where the stream is exhausted and nothing is in flight.
C3_BarrierResolvesOnceWhenQuiescent ==
  [][/\ (pc # "resolved" /\ pc' = "resolved") =>
          (streamExhausted' /\ inFlightCount' = 0)
     /\ pc = "resolved" => pc' = "resolved"]_vars

\* C4: the terminal wait always comes to an end: once the stream is
\* exhausted loadTest resolves, whether the last request in flight finished
\* before the loop saw the end of the stream or has yet to finish; the run
\* never stays with the stream exhausted and nothing in flight.
C4_BarrierEventuallyResolves == streamExhausted ~> (pc = "resolved")

\* The last request has finished and the loop has yet to see the stream end.
C4_Witness ==
  /\ streamExhausted
  /\ pc = "read"
  /\ requests # <<>>
  /\ inFlightCount = 0

\* C5: executeRequest never rejects.  Every call that has returned carries
\* its URL; it is a success only with a 2xx status, which it reports, and a
\* failure carries its error; a malformed URL, a non-2xx status and a lapsed
\* timeout all end as failures, a whole 2xx response as a success.
C5_ExecuteRequestNeverRejects ==
  \A i \in 1..Len(requests) :
    LET r == requests[i] IN
      /\ r.phase # "rejected"
      /\ Done(r) =>
           /\ r.outcome.url = r.url
           /\ IF r.outcome.success
                THEN /\ r.statusCode \in 200..299
                     /\ r.outcome.statusCode = r.statusCode
                ELSE r.outcome.error # NoError
      /\ ~IsAbsoluteURL(r.url) => Done(r) /\ ~r.outcome.success
      /\ (Done(r) /\ r.statusCode # 0 /\ r.statusCode \notin 200..299) =>
           ~r.outcome.success
      /\ (Done(r) /\ r.statusCode \in 200..299 /\ r.bodyEnded) => r.outcome.success
      /\ now > Deadline(r) => Done(r)

C5_Witness ==
  /\ Len(requests) = 2
  /\ \E i, j \in 1..2 :
       /\ Done(requests[i]) /\ requests[i].outcome.error = <<"ERR_INVALID_URL">>
       /\ Done(requests[j]) /\ requests[j].outcome.error = TimeoutError

\* The errors that come from the transport, not from the status code.
TransportErrors ==
  { <<"ECONNREFUSED">>, <<"UND_ERR_HEADERS_TIMEOUT">>, <<"TimeoutError">>,
    <<"ERR_INVALID_URL">> }

\* C6: an outcome is a success iff the request ended with a response whose
\* status is in [200,300); a response with any other status, 3xx included,
\* ends as a failure whose error code is HTTP_<status>.
C6_SuccessIffStatus2xx ==
  \A i \in 1..Len(requests) :
    LET r == requests[i]
        responded == r.statusCode # 0 /\ r.outcome.error \notin TransportErrors
    IN Done(r) =>
         /\ r.outcome.success <=> (responded /\ r.statusCode \in 200..299)
         /\ (responded /\ r.statusCode \notin 200..299) =>
              r.outcome.error = <<"HTTP_", r.statusCode>>

C6_Witness ==
  \E i \in 1..Len(requests) :
    /\ Done(requests[i])
    /\ requests[i].statusCode = 300
    /\ requests[i].outcome = Failure(requests[i].url, <<"HTTP_", 300>>)

\* C7: every request has a hard deadline: none is in flight later than
\* timeoutMs after it was issued, and when the server sends headers and
\* never ends the body the outcome is a timeout failure, never a success.
C7_HardDeadline ==
  \A i \in 1..Len(requests) :
    LET r == requests[i] IN
      /\ InFlight(r) => now <= Deadline(r)
      /\ (Done(r) /\ r.statusCode # 0 /\ server.body = "never") =>
           (~r.outcome.success /\ r.outcome.error = TimeoutError)

\* C8: a request is reported as a success only after the end of its
\* response body has been seen.
C8_SuccessOnlyAfterBodyEnd ==
  \A i \in 1..Len(requests) :
    (Done(requests[i]) /\ requests[i].outcome.success) => requests[i].bodyEnded

C10_FailuresDoNotAbortTheRun ==
  /\ pc = "rejected" => streamState = "errored"
  /\ pc \in {"resolved", "rejected"} =>
       LET parsed == Parsed IN
         WellFormedIn(parsed) =>
           /\ pc = "resolved"
           /\ \A k \in 1..Len(requests) :
                (Done(requests[k]) /\ ~requests[k].outcome.success) =>
                  \A n \in (requests[k].line + 1)..Len(file) :
                    parsed[n].kind = "record" =>
                      \E j \in (k + 1)..Len(requests) : requests[j].line = n

\* The first request has failed before the second record's time has come,
\* and the second request went out at that time.
C10_Witness ==
  /\ WellFormed
  /\ pc = "resolved"
  /\ Len(requests) = 2
  /\ requests[1].outcome.error = <<"ECONNREFUSED">>
  /\ requests[1].issuedAt = 0
  /\ requests[2].issuedAt = 1

\* The next record's target time has been reached.
NextRecordIsDue ==
  /\ buffer # <<>>
  /\ LET first == IF firstRequestTime = Null THEN Head(buffer).time
                  ELSE firstRequestTime
     IN startTime + Accelerated(Head(buffer).time - first) <= now

\* C11: the loop's progress never depends on a request's completion.
\* Whenever the loop is at the head of its body and a record is there, the
\* turn for it can be taken, and when that record's target time has been
\* reached the turn issues its request; a sleep that is over can be left and
\* issues the request; all this however many requests are in flight.
C11_DispatchNeverWaitsForRequests ==
  /\ (pc = "read" /\ ~LimitReached /\ streamState # "errored" /\ buffer # <<>>) =>
       /\ ENABLED LoopBody
       /\ NextRecordIsDue => ENABLED (LoopBody /\ Len(requests') = Len(requests) + 1)
  /\ (pc = "sleep" /\ now >= wakeAt) =>
       ENABLED (TimerFires /\ Len(requests') = Len(requests) + 1)

\* Every record's request has been issued and all of them are in flight.
C11_Witness ==
  /\ Len(requests) >= 2
  /\ inFlightCount = Len(requests)
  /\ streamExhausted

\* The recorded time of the record a request was issued for.
RecordTime(r) == TransformOf[file[r.line]].time

\* C12: no request is dispatched early: every request was issued at an
\* instant not before startTime plus the accelerated offset of its record
\* from the first record.
C12_NoEarlyDispatch ==
  \A i \in 1..Len(requests) :
    requests[i].issuedAt >=
      startTime + Accelerated(RecordTime(requests[i]) - firstRequestTime)

\* The loop slept for the second record and issued its request on time.
C12_Witness ==
  /\ Len(requests) = 2
  /\ requests[1].issuedAt = 0
  /\ RecordTime(requests[2]) - RecordTime(requests[1]) = 1
  /\ requests[2].issuedAt = 1

\* C13: between the dispatches of two consecutive records with equal times
\* the loop does not sleep: while it sleeps, the record it holds has a time
\* other than that of the record dispatched last, whatever delay preceded
\* the dispatch of that one.
C13_NoSleepBetweenEqualTimes ==
  (pc = "sleep" /\ requests # <<>>) =>
    current.time # RecordTime(requests[Len(requests)])

\* The loop slept for the second record, and the third, of the same time,
\* went out at the same instant.
C13_Witness ==
  /\ Len(requests) = 3
  /\ RecordTime(requests[1]) < RecordTime(requests[2])
  /\ RecordTime(requests[2]) = RecordTime(requests[3])
  /\ requests[1].issuedAt < requests[2].issuedAt
  /\ requests[2].issuedAt = requests[3].issuedAt

\* C14: the run's time origin is the instant the first record is observed:
\* with acceleration 1, a record whose recorded gap from the first record is
\* d is dispatched no earlier than d after the first request's dispatch,
\* however long the stream took to deliver the first record.
C14_OriginIsFirstRecord ==
  options.accelerator = 1 =>
    \A i \in 1..Len(requests) :
      requests[i].issuedAt - requests[1].issuedAt >=
        RecordTime(requests[i]) - RecordTime(requests[1])

\* C15: with acceleration factor a, the offset from startTime to the instant
\* the loop sleeps until for a record is the record's offset from the first
\* record divided by a, rounded down; with a = 1 it is the recorded offset.
C15_OffsetsDividedByAccelerator ==
  pc = "sleep" =>
    LET a == options.accelerator
        relativeTime == current.time - firstRequestTime
        offset == wakeAt - startTime
    IN /\ a * offset <= relativeTime
       /\ relativeTime < a * (offset + 1)
       /\ a = 1 => offset = relativeTime

\* With a = 2 the record 1 ms after the first went out with the first, and
\* the record 2 ms after it 1 ms later.
C15_Witness ==
  /\ options.accelerator = 2
  /\ Len(requests) = 3
  /\ \A i \in 1..3 : RecordTime(requests[i]) = i - 1
  /\ requests[1].issuedAt = 0
  /\ requests[2].issuedAt = 0
  /\ requests[3].issuedAt = 1

\* A file that holds no record: it is empty or all its lines are blank.
NoRecords == \A n \in 1..Len(file) : Trim(file[n]) = <<>>

\* C16: when the stream yields no record, loadTest dispatches no request,
\* never sleeps and is not rejected; once the stream is exhausted its return
\* waits for nothing, and it returns by the 'No requests found' path.  That
\* path is taken only when no request was dispatched.
C16_EmptyStreamResolvesAtOnce ==
  /\ NoRecords =>
       /\ requests = <<>>
       /\ pc \in {"read", "resolved"}
       /\ wakeAt = Null
       /\ (pc = "read" /\ streamExhausted) => ENABLED LoopEnd
       /\ pc = "resolved" => noRequests
  /\ noRequests => (pc = "resolved" /\ requests = <<>>)
  /\ (pc = "resolved" /\ ~NoRecords) => ~noRequests

\* A file of blank lines has been read and loadTest has returned, at once.
C16_Witness ==
  /\ file # <<>>
  /\ NoRecords
  /\ pc = "resolved"
  /\ noRequests
  /\ now = 0

\* C17: when a line is malformed, the transform stops at the first such
\* line and the stream fails there; no record of that line or of a later
\* line is yielded, no request for one is dispatched, and loadTest never
\* resolves: when it settles it is rejected with the error of that line.
C17_ParseErrorIsFatal ==
  LET parsed == Parsed
      malformed == {n \in 1..Len(file) : parsed[n].kind = "error"}
  IN malformed # {} =>
       LET m == CHOOSE n \in malformed : \A k \in malformed : n <= k
       IN /\ lineNumber <= m
          /\ (lineNumber = m) <=> (streamState = "errored")
          /\ streamState # "ended"
          /\ \A i \in 1..Len(buffer) : buffer[i].line < m
          /\ pc = "sleep" => current.line < m
          /\ \A i \in 1..Len(requests) : requests[i].line < m
          /\ pc # "resolved"
          /\ pc = "rejected" => streamError = parsed[m].error

\* The request of the first line went out, the second line is malformed and
\* loadTest was rejected with its error.
C17_Witness ==
  /\ Len(file) = 2
  /\ Len(requests) = 1
  /\ requests[1].line = 1
  /\ pc = "rejected"
  /\ streamError = <<"Invalid time value", 2>>

\* The fields of a trimmed line, read off the positions of its commas.
Commas(s) == {k \in 1..Len(s) : s[k] = ","}

FirstField(s) == SubSeq(s, 1, (CHOOSE k \in Commas(s) : TRUE) - 1)

SecondField(s) == SubSeq(s, (CHOOSE k \in Commas(s) : TRUE) + 1, Len(s))

IsBlank(line) == \A k \in 1..Len(line) : IsSpace(line[k])

TwoFields(line) == Cardinality(Commas(Trim(line))) = 1

TimeIsNumber(line) ==
  LET field == Trim(FirstField(Trim(line))) IN field # <<>> /\ IsDigit(Head(field))

UrlIsThere(line) == Trim(SecondField(Trim(line))) # <<>>

IsRecordLine(line) ==
  ~IsBlank(line) /\ TwoFields(line) /\ TimeIsNumber(line) /\ UrlIsThere(line)

\* The error a line that is neither blank nor a record fails with.
ErrorOfLine(line, n) ==
  IF ~TwoFields(line)
    THEN <<"Invalid CSV format", n, Cardinality(Commas(Trim(line))) + 1>>
  ELSE IF ~TimeIsNumber(line) THEN <<"Invalid time value", n>>
  ELSE <<"Invalid URL", n>>

\* The records the stream has yielded so far, in the order it yielded them:
\* those the loop has issued requests for, the one it sleeps for, and those
\* still buffered.
Yielded ==
  [i \in 1..Len(requests) |-> [line |-> requests[i].line, url |-> requests[i].url]]
    \o (IF pc = "sleep" THEN <<[line |-> current.line, url |-> current.url]>> ELSE <<>>)
    \o [i \in 1..Len(buffer) |-> [line |-> buffer[i].line, url |-> buffer[i].url]]

\* C18: of the lines the transform has taken, exactly those that are not
\* blank, have two fields, a first field that parses as a number and a
\* second that is not empty have yielded a record, with that time and that
\* URL, in file order; the stream has failed iff the last line taken is
\* neither blank nor such a line, and then with the column-count error, else
\* the invalid-time error, else the invalid-URL error, of that line.
C18_RecordIffTwoValidFields ==
  LET yielded == Yielded IN
    /\ \A n \in 1..lineNumber :
         IsRecordLine(file[n]) <=> (\E i \in 1..Len(yielded) : yielded[i].line = n)
    /\ \A i \in 1..Len(yielded) :
         /\ yielded[i].url = Trim(SecondField(Trim(file[yielded[i].line])))
         /\ \A j \in (i + 1)..Len(yielded) : yielded[i].line < yielded[j].line
    /\ \A i \in 1..Len(buffer) :
         buffer[i].time = ParseFloat(Trim(FirstField(Trim(file[buffer[i].line]))))
    /\ (streamState = "errored") <=>
         (lineNumber > 0 /\ ~IsBlank(file[lineNumber]) /\ ~IsRecordLine(file[lineNumber]))
    /\ streamState = "errored" => streamError = ErrorOfLine(file[lineNumber], lineNumber)

\* A line with a bad time and an empty URL has failed with the invalid-time
\* error, after the record before it was yielded.
C18_Witness ==
  /\ Len(file) = 2
  /\ TwoFields(file[2]) /\ ~TimeIsNumber(file[2]) /\ ~UrlIsThere(file[2])
  /\ streamError = <<"Invalid time value", 2>>
  /\ Len(Yielded) = 1

\* The line skipHeader discards: the first line that is not blank, 0 when
\* the option is off or every line is blank.
HeaderLineNumber ==
  LET nonBlank == {n \in 1..Len(file) : ~IsBlank(file[n])}
  IN IF options.skipHeader /\ nonBlank # {}
       THEN CHOOSE n \in nonBlank : \A k \in nonBlank : n <= k
       ELSE 0

RECURSIVE RecordLinesOf(_)
RecordLinesOf(n) ==
  IF n > Len(file) THEN <<>>
  ELSE IF IsRecordLine(file[n]) /\ n # HeaderLineNumber
    THEN <<n>> \o RecordLinesOf(n + 1)
    ELSE RecordLinesOf(n + 1)

\* No line but the discarded header is malformed.
AllLinesParse ==
  \A n \in 1..Len(file) :
    IsBlank(file[n]) \/ IsRecordLine(file[n]) \/ n = HeaderLineNumber

Min(a, b) == IF a <= b THEN a ELSE b

\* C20: with limit N > 0 never more than N requests are dispatched, and
\* they are for the first records of the file in file order; the loop never
\* sleeps once N requests are out, and can then be left at once, whatever
\* the stream still holds; when loadTest has resolved for a file that
\* parses, min(N, number of records) requests were dispatched.
C20_LimitStopsAfterNRecords ==
  options.limit > 0 =>
    LET recordLines == RecordLinesOf(1) IN
      /\ Len(requests) <= Min(options.limit, Len(recordLines))
      /\ \A i \in 1..Len(requests) : requests[i].line = recordLines[i]
      /\ pc = "sleep" => Len(requests) < options.limit
      /\ (pc = "read" /\ Len(requests) = options.limit) => ENABLED LoopEnd
      /\ (pc = "resolved" /\ AllLinesParse) =>
           Len(requests) = Min(options.limit, Len(recordLines))

\* With limit 1 and three records a millisecond apart loadTest has resolved
\* at once after the first request, the second record still in the stream.
C20_Witness ==
  /\ options = [DefaultOptions EXCEPT !.limit = 1]
  /\ Len(RecordLinesOf(1)) = 3
  /\ Len(requests) = 1
  /\ pc = "resolved"
  /\ now = 0
  /\ buffer # <<>>
  /\ Head(buffer).time > RecordTime(requests[1])

\* C21: with rotation threshold N > 0 and D requests dispatched, the pool
\* handle has been replaced floor(D / N) times, once after each N-th
\* dispatch: the i-th request went out on handle number ceil(i / N), so no
\* handle was used to dispatch more than N requests; with no threshold the
\* handle is never replaced.
C21_RotationAfterEveryNthDispatch ==
  LET n == options.resetConnections
      d == Len(requests)
      rotations == Len(pool.handles) - 1
  IN /\ pool.current = Len(pool.handles)
     /\ n = 0 => (rotations = 0 /\ \A i \in 1..d : requests[i].handle = 1)
     /\ n > 0 =>
          /\ rotations = d \div n
          /\ pool.sinceRotation = d % n
          /\ \A i \in 1..d : requests[i].handle = ((i - 1) \div n) + 1
          /\ \A h \in 1..Len(pool.handles) :
               Cardinality({i \in 1..d : requests[i].handle = h}) <= n

\* Threshold 2 and five requests: the handle was replaced twice, after the
\* second and after the fourth request.
C21_Witness ==
  /\ options.resetConnections = 2
  /\ Len(requests) = 5
  /\ Len(pool.handles) = 3
  /\ requests[2].handle = 1 /\ requests[3].handle = 2
  /\ requests[4].handle = 2 /\ requests[5].handle = 3

\* C22: a rotation never drops or fails a request in flight.  A request
\* goes out on the handle that is current at its dispatch and keeps it as
\* long as it lives, and that handle is never closed while the request is
\* in flight; the current handle is open, and a record that is due is
\* dispatched whatever old handles are still closing.
C22_RotationSparesRequestsInFlight ==
  /\ [](/\ \A h \in 1..Len(pool.handles) :
             pool.handles[h] = "closed" => Users(requests, h) = {}
        /\ pool.handles[pool.current] = "open"
        /\ (pc = "read" /\ IteratorYields /\ NextRecordIsDue) =>
             ENABLED (LoopBody /\ Len(requests') = Len(requests) + 1))
  /\ [][/\ \A i \in 1..Len(requests) : requests'[i].handle = requests[i].handle
        /\ Len(requests') > Len(requests) =>
             requests'[Len(requests')].handle = pool.current]_vars

\* The first handle is closed, the second is still closing under a request
\* in flight, and a request has gone out on the third.
C22_Witness ==
  /\ pool.handles = <<"closed", "closing", "open">>
  /\ Users(requests, 2) # {}
  /\ \E i \in 1..Len(requests) : requests[i].handle = 3

\* C23: whenever loadTest has resolved, the final pool handle has been
\* closed, and its close began only when no request was in flight: while a
\* request is in flight the final handle is open and loadTest has not
\* resolved.
C23_FinalHandleClosedAtCompletion ==
  /\ pc = "resolved" => pool.handles[pool.current] = "closed"
  /\ tracker.inFlightCount > 0 =>
       (pool.handles[pool.current] = "open" /\ pc # "resolved")

\* C24: the tracker's inFlightCount is the number of requests dispatched
\* less the number of requests finished, and is never negative, however
\* the dispatches and the ends of the requests are interleaved.
C24_InFlightCountIsDispatchedLessFinished ==
  /\ tracker.inFlightCount =
       Len(requests) - Cardinality({i \in 1..Len(requests) : Done(requests[i])})
  /\ tracker.inFlightCount >= 0
  /\ tracker.inFlightCount = inFlightCount

\* Two requests were in flight at once; the one dispatched first timed out
\* after the other had failed, and the count is back to none.
C24_Witness ==
  /\ Len(requests) = 2
  /\ tracker.inFlightCount = 0
  /\ requests[1].issuedAt = requests[2].issuedAt
  /\ requests[2].outcome.error = <<"ECONNREFUSED">>
  /\ requests[1].outcome.error = TimeoutError

\* The run is over and every request has finished: the final report is due.
ReportDue == pc = "resolved" /\ ~noRequests /\ tracker.inFlightCount = 0

\* C25: every request that has finished has contributed one outcome: the
\* report's total is its successes plus its errors and the number of latency
\* samples, its successes and errors are the requests that succeeded and
\* that failed; when the final report is due the total is the number of
\* requests dispatched, also when every one of them failed.
C25_ReportCountsEveryRequestOnce ==
  LET finished == {i \in 1..Len(requests) : Done(requests[i])}
      failed == {i \in finished : ~requests[i].outcome.success}
  IN /\ Report.total = Report.successful + Report.errors
     /\ Report.total = tracker.samples
     /\ Report.total = Cardinality(finished)
     /\ Report.errors = Cardinality(failed)
     /\ Report.successful = Cardinality(finished \ failed)
     /\ ReportDue => Report.total = Len(requests)

\* Both requests of the run failed: total 2, errors 2, no success.
C25_Witness ==
  /\ ReportDue
  /\ Len(requests) = 2
  /\ Report = [total |-> 2, successful |-> 0, errors |-> 2]

\* The part of the state the scheduling loop and the stream own.
scheduler ==
  <<lineNumber, headerSkipped, buffer, streamState, streamError, pc, startTime,
    firstRequestTime, current, wakeAt, noRequests>>

\* C26: a step in which a request in flight ends as a failure, by its
\* timeout or otherwise, changes nothing else: every other request is as it
\* was, none is added or removed, the clock, the stream and the scheduling
\* loop, with the record it holds and the instant it sleeps until, are
\* unchanged.
C26_FailureLeavesTheRestUnchanged ==
  [][\A i \in 1..Len(requests) :
       (/\ InFlight(requests[i])
        /\ Len(requests') >= i
        /\ requests'[i].phase = "done"
        /\ ~requests'[i].outcome.success) =>
         /\ Len(requests') = Len(requests)
         /\ \A j \in 1..Len(requests) : j # i => requests'[j] = requests[j]
         /\ scheduler' = scheduler
         /\ now' = now]_vars

\* The first request has timed out while the second, dispatched a
\* millisecond later, is in flight.
C26_Witness ==
  /\ Len(requests) = 2
  /\ requests[1].outcome.error = TimeoutError
  /\ requests[2].issuedAt > requests[1].issuedAt
  /\ InFlight(requests[2])

\* The URL of the record a request was issued for.
RecordURL(r) == TransformOf[file[r.line]].url

\* What follows the authority in a URL: the path and the query.
AfterAuthority(url) == SubSeq(url, IndexOf(url, {"/", "?"}, 2), Len(url))

\* C27: with a host override, every request for a record with an absolute
\* URL is sent to the URL made of the scheme of the recorded URL, the
\* override as authority, whole, and the path and query of the recorded URL
\* (the query with cache=false set when that is asked for as well);
\* rewriting the host of the URL sent once more gives the same URL.
C27_HostRewriteReplacesOnlyTheAuthority ==
  options.host # NoHost =>
    \A i \in 1..Len(requests) :
      LET recorded == RecordURL(requests[i])
          sent == requests[i].url
      IN IsAbsoluteURL(recorded) =>
           /\ Head(sent) = Head(recorded)
           /\ SubSeq(sent, 2, Len(options.host) + 1) = options.host
           /\ IndexOf(sent, {"/", "?"}, 2) = Len(options.host) + 2
           /\ AfterAuthority(sent) =
                AfterAuthority(IF options.noCache THEN CacheBusted(recorded)
                               ELSE recorded)
           /\ HostRewritten(sent, options.host) = sent
           /\ HostRewritten(HostRewritten(recorded, options.host), options.host)
                = HostRewritten(recorded, options.host)

\* A request recorded for https://example.com:8080/api?foo=bar went to
\* https://localhost/api?foo=bar.
C27_Witness ==
  /\ options.host = <<"localhost">>
  /\ file = << <<"0", ",", "https://", "example.com", ":", "8080", "/", "api",
                 "?", "foo", "=", "bar">> >>
  /\ Len(requests) = 1
  /\ requests[1].url = <<"https://", "localhost", "/", "api", "?", "foo", "=", "bar">>

IsCache(param) == param.name = <<"cache">>

IsNotCache(param) == ~IsCache(param)

\* C28: with cache-busting, the URL every request for a record with an
\* absolute URL is sent to has one parameter named cache, of value false;
\* a cache parameter of the recorded URL is overwritten where it stands, a
\* further one dropped, and without one cache=false comes last; the other
\* parameters are those of the recorded URL, in their order; setting the
\* parameter in the URL sent once more gives the same URL.
C28_CacheBustSetsOneParameter ==
  options.noCache =>
    \A i \in 1..Len(requests) :
      LET recorded == RecordURL(requests[i])
          sent == requests[i].url
          before == ParseURL(recorded).params
          after == ParseURL(sent).params
          named == {k \in 1..Len(sent) : sent[k] = "cache"}
      IN IsAbsoluteURL(recorded) =>
           /\ Cardinality(named) = 1
           /\ \A k \in named :
                /\ k + 2 <= Len(sent)
                /\ sent[k - 1] \in {"?", "&"}
                /\ sent[k + 1] = "=" /\ sent[k + 2] = "false"
           /\ Cardinality({k \in 1..Len(after) : IsCache(after[k])}) = 1
           /\ SelectSeq(after, IsNotCache) = SelectSeq(before, IsNotCache)
           /\ (\A k \in 1..Len(before) : IsNotCache(before[k])) =>
                after = Append(before, [name |-> <<"cache">>, value |-> <<"false">>])
           /\ (before # <<>> /\ IsCache(before[1])) => IsCache(after[1])
           /\ CacheBusted(sent) = sent

\* A request recorded for http://example.com/api?cache=true&foo=bar went to
\* http://example.com/api?cache=false&foo=bar.
C28_Witness ==
  /\ options.noCache /\ options.host = NoHost
  /\ file = << <<"0", ",", "http://", "example.com", "/", "api", "?",
                 "cache", "=", "true", "&", "foo", "=", "bar">> >>
  /\ Len(requests) = 1
  /\ requests[1].url = <<"http://", "example.com", "/", "api", "?",
                         "cache", "=", "false", "&", "foo", "=", "bar">>

\* C29: the request for a record whose URL is not an absolute URL ends at
\* once as one failure, with the invalid-URL error and that URL, and is
\* never in flight; loadTest is not rejected for it: a file whose lines all
\* parse is never rejected, and when loadTest has resolved every record
\* after such a record has its request, in file order.
C29_InvalidURLFailsItsRequestOnly ==
  LET parsed == Parsed
      recordLines == RecordLinesFrom(parsed, 1)
  IN /\ \A i \in 1..Len(requests) :
          ~IsAbsoluteURL(RecordURL(requests[i])) =>
            /\ requests[i].phase = "done"
            /\ requests[i].outcome =
                 Failure(RecordURL(requests[i]), <<"ERR_INVALID_URL">>)
     /\ WellFormedIn(parsed) =>
          /\ pc # "rejected"
          /\ pc = "resolved" =>
               /\ Len(requests) = Len(recordLines)
               /\ \A i \in 1..Len(requests) : requests[i].line = recordLines[i]

\* The first record's URL is not absolute, its request failed at once; the
\* second record's request went out at its time and loadTest has resolved.
C29_Witness ==
  /\ Len(file) = 2
  /\ Parsed[1].kind = "record" /\ ~IsAbsoluteURL(Parsed[1].url)
  /\ Parsed[2].kind = "record" /\ IsAbsoluteURL(Parsed[2].url)
  /\ pc = "resolved"
  /\ Len(requests) = 2
  /\ requests[1].outcome.error = <<"ERR_INVALID_URL">>
  /\ requests[2].issuedAt = 1
  /\ tracker.errorCount = 1

\* C30: when the first malformed line is line k and loadTest is rejected
\* with its error, the record of every valid line before k has been yielded
\* to the loop and its request dispatched, however far ahead of the loop the
\* transform had read.
C30_RecordsBeforeTheErrorAreDispatched ==
  LET parsed == Parsed
      malformed == {n \in 1..Len(file) : parsed[n].kind = "error"}
  IN (malformed # {} /\ pc = "rejected") =>
       LET k == CHOOSE n \in malformed : \A m \in malformed : n <= m
       IN \A n \in 1..(k - 1) :
            parsed[n].kind = "record" =>
              \E i \in 1..Len(requests) : requests[i].line = n

\* C31: a record whose time is earlier than that of a record before it, or
\* than the first record's, is dispatched without a sleep: while the loop
\* sleeps, the record it holds is later than the first record and than
\* every record dispatched so far, and a sleep is never for an instant that
\* has passed; the requests are issued in file order, whatever the times.
C31_EarlierRecordIsDispatchedAtOnce ==
  /\ pc = "sleep" =>
       /\ current.time > firstRequestTime
       /\ \A i \in 1..Len(requests) : current.time > RecordTime(requests[i])
       /\ \A i \in 1..Len(requests) : wakeAt > requests[i].issuedAt
  /\ \A i \in 1..Len(requests) :
       /\ \A j \in (i + 1)..Len(requests) :
            /\ requests[i].line < requests[j].line
            /\ requests[i].issuedAt <= requests[j].issuedAt
       /\ pc = "sleep" => requests[i].line < current.line

\* The records of the times 1, 2 and 0: the second went out a millisecond
\* after the first, and the third, earlier than both, at the same instant.
C31_Witness ==
  /\ Len(requests) = 3
  /\ RecordTime(requests[1]) = 1
  /\ RecordTime(requests[2]) = 2
  /\ RecordTime(requests[3]) = 0
  /\ requests[1].issuedAt = 0
  /\ requests[2].issuedAt = 1
  /\ requests[3].issuedAt = 1

\* C32: the target instant of a record is the start instant of the run plus
\* the record's accelerated offset from the first record, whenever the
\* records before it went out: a sleep ends at that instant, and no request
\* is issued before it.
C32_TargetIsFixedByStartAndOffset ==
  /\ pc = "sleep" =>
       wakeAt = startTime + Accelerated(current.time - firstRequestTime)
  /\ \A i \in 1..Len(requests) :
       requests[i].issuedAt >=
         startTime + Accelerated(RecordTime(requests[i]) - firstRequestTime)

\* The first record went out a millisecond late and the loop sleeps for the
\* record two milliseconds after it: the sleep ends two milliseconds after
\* the start, one millisecond after the first dispatch.
C32_Witness ==
  /\ options.accelerator = 1
  /\ Len(requests) >= 1
  /\ requests[1].issuedAt = startTime + 1
  /\ pc = "sleep"
  /\ current.time - firstRequestTime = 2
  /\ wakeAt = startTime + 2
  /\ wakeAt - requests[1].issuedAt = 1

\* The factor is at least 1.
FactorAtLeastOne == options.accelerator >= options.acceleratorDenominator

\* C33 (as stated): every factor that reaches loadTest from the CLI is at
\* least 1, and a sleep ends no later than the recorded offset after the
\* start of the run.
C33_FactorIsAtLeastOne ==
  /\ FactorAtLeastOne
  /\ pc = "sleep" => wakeAt - startTime <= current.time - firstRequestTime

\* C33 (amended): every factor that reaches loadTest from the CLI is
\* greater than 0; a factor of at least 1 never lengthens a recorded
\* delay, and a factor below 1 never shortens one.
C33_FactorIsPositive ==
  /\ options.accelerator > 0
  /\ options.acceleratorDenominator > 0
  /\ pc = "sleep" =>
       LET recorded == current.time - firstRequestTime
       IN IF FactorAtLeastOne THEN wakeAt - startTime <= recorded
          ELSE wakeAt - startTime >= recorded

\* --accelerator 0.5 has passed the checks, and the loop sleeps two
\* milliseconds for the record one millisecond after the first.
C33_Witness ==
  /\ options.accelerator = 1
  /\ options.acceleratorDenominator = 2
  /\ pc = "sleep"
  /\ current.time - firstRequestTime = 1
  /\ wakeAt - startTime = 2

\* A field that is a number from end to end. (Of the characters the lines
\* are made of only the digits take part in a number.)
IsWhollyANumber(field) ==
  field # <<>> /\ \A k \in 1..Len(field) : IsDigit(field[k])

\* C34 (as stated): a record is yielded only for a line whose whole first
\* field is a number; a line of two fields whose first field is not one,
\* such as a number followed by other characters, fails with the
\* invalid-time error.
C34_WholeFirstFieldIsANumber ==
  LET yielded == Yielded IN
    /\ \A i \in 1..Len(yielded) :
         IsWhollyANumber(Trim(FirstField(Trim(file[yielded[i].line]))))
    /\ \A n \in 1..lineNumber :
         (TwoFields(file[n]) /\ ~IsWhollyANumber(Trim(FirstField(Trim(file[n])))))
           => (n = lineNumber /\ streamError = <<"Invalid time value", n>>)

\* C35: the line number a parse error carries is the place of the
\* offending line in the file, counted from 1 with the blank lines before
\* it: the line at that place is the malformed one, every line before it
\* is blank or a record, and the number is one more than their count.
C35_ErrorLineNumberIsPhysical ==
  streamState = "errored" =>
    LET n == streamError[2]
        parsed == Parsed
        blanks == {k \in 1..Len(file) : k < n /\ IsBlank(file[k])}
        records == {k \in 1..Len(file) : k < n /\ parsed[k].kind = "record"}
    IN /\ n \in 1..Len(file)
       /\ parsed[n].kind = "error"
       /\ streamError = parsed[n].error
       /\ \A k \in 1..(n - 1) : parsed[k].kind # "error"
       /\ n = Cardinality(blanks) + Cardinality(records) + 1

\* A blank line, then a line with a bad time: the error carries line 2.
C35_Witness ==
  /\ Len(file) = 2
  /\ IsBlank(file[1])
  /\ streamState = "errored"
  /\ streamError = <<"Invalid time value", 2>>

====
